---- MODULE Spec2Model ----
(***************************************************************************)
(* Calendar web application.                                               *)
(*                                                                         *)
(*   src/script.js         the browser side: the month grid, navigation,   *)
(*                         the event modal and its form                    *)
(*   src/unnamed/part_000  the REST server: GET/POST/DELETE /events over a *)
(*                         MongoDB collection                              *)
(*                                                                         *)
(* Strings the code builds or compares character by character (date        *)
(* strings) are sequences of one-character strings; strings it only        *)
(* carries around (titles, times, durations, descriptions) are atoms.      *)
(***************************************************************************)
EXTENDS Integers, Sequences, FiniteSets

VARIABLES
    \* ---- src/script.js ----
    staticEvents,            \* the event array (line 9)
    currentYear,             \* line 31
    currentMonth,            \* line 32, 0..11
    today,                   \* line 33: [year, month, date] of page load
    calendarGrid,            \* children of #calendar-grid, in order
    currentMonthYearDisplay, \* header text: <<month name, year>>
    modalDisplay,            \* display of #event-modal: "none" or "block"
    eventTitle,              \* value of #event-title
    eventDate,               \* value of #event-date
    \* ---- src/unnamed/part_000 ----
    eventsCollection,        \* line 15: "undefined" until connectDB assigns it
    dbEvents,                \* documents of the events collection, natural order
    nextId,                  \* next ObjectId the driver generates
    clock,                   \* server time as new Date() reads it (line 70);
                             \* it has advanced by the next insert
    running,                 \* the server process has not exited
    res,                     \* the last request and the response sent to it:
                             \* [method, req, status, body]
    trip                     \* observer of the client's request/response sequence

frontVars == <<staticEvents, currentYear, currentMonth, today, calendarGrid,
               currentMonthYearDisplay, modalDisplay, eventTitle, eventDate>>
serverVars == <<eventsCollection, running, dbEvents, nextId, clock, res, trip>>
vars == <<staticEvents, currentYear, currentMonth, today, calendarGrid,
          currentMonthYearDisplay, modalDisplay, eventTitle, eventDate,
          eventsCollection, running, dbEvents, nextId, clock, res, trip>>

----------------------------------------------------------------------------
(* Bounds of the model                                                     *)

\* months the view may move away from the month of page load
NavSpan == 1
\* submissions of the form after page load
MaxSubmits == 1
\* first year, and number of further years, of the page-load dates of SpecGrid
GridFirstYear == 1995
GridYearSpan == 110

\* documents inserted by POST
MaxInserts == 2

\* the year of the sample events of staticEvents
SampleYear == 2025

----------------------------------------------------------------------------
(* Strings                                                                 *)

EmptyStr == << >>

DigitChars == <<"0", "1", "2", "3", "4", "5", "6", "7", "8", "9">>

\* Number.prototype.toString for an integer
RECURSIVE toString(_)
toString(n) ==
    IF n < 0 THEN <<"-">> \o toString(-n)
    ELSE IF n < 10 THEN <<DigitChars[n + 1]>>
    ELSE toString(n \div 10) \o <<DigitChars[(n % 10) + 1]>>

\* String.prototype.padStart with a one-character filler
RECURSIVE padStart(_, _, _)
padStart(s, targetLength, ch) ==
    IF Len(s) >= targetLength THEN s
    ELSE padStart(<<ch>> \o s, targetLength, ch)

\* formatDate without the two padStart calls
formatDate_NoPad(year, month, day) ==
    toString(year) \o <<"-">> \o toString(month + 1) \o <<"-">> \o toString(day)

\* formatDate, lines 45-49
formatDate(year, month, day) ==
    LET m == padStart(toString(month + 1), 2, "0")
        d == padStart(toString(day), 2, "0")
    IN  toString(year) \o <<"-">> \o m \o <<"-">> \o d

----------------------------------------------------------------------------
(* The Date object, as far as renderCalendar uses it                       *)

IsLeapYear(y) == (y % 4 = 0 /\ y % 100 # 0) \/ y % 400 = 0

\* days of month m (0..11) of year y
DaysInMonthOf(y, m) ==
    IF m = 1 THEN (IF IsLeapYear(y) THEN 29 ELSE 28)
    ELSE IF m \in {3, 5, 8, 10} THEN 30 ELSE 31

\* new Date(y, m, d): month and day outside their ranges carry over
RECURSIVE NewDate(_, _, _)
NewDate(y, m, d) ==
    IF m > 11 THEN NewDate(y + 1, m - 12, d)
    ELSE IF m < 0 THEN NewDate(y - 1, m + 12, d)
    ELSE IF d < 1 THEN
        LET py == IF m = 0 THEN y - 1 ELSE y
            pm == IF m = 0 THEN 11 ELSE m - 1
        IN  NewDate(py, pm, d + DaysInMonthOf(py, pm))
    ELSE IF d > DaysInMonthOf(y, m) THEN NewDate(y, m + 1, d - DaysInMonthOf(y, m))
    ELSE [year |-> y, month |-> m, date |-> d]

RECURSIVE DaysBeforeMonth(_, _)
DaysBeforeMonth(y, m) ==
    IF m = 0 THEN 0 ELSE DaysBeforeMonth(y, m - 1) + DaysInMonthOf(y, m - 1)

LeapDaysBefore(y) == ((y - 1) \div 4) - ((y - 1) \div 100) + ((y - 1) \div 400)

\* days from 1 January 1970 to the date
DayNumber(dt) ==
    365 * (dt.year - 1970) + (LeapDaysBefore(dt.year) - LeapDaysBefore(1970))
        + DaysBeforeMonth(dt.year, dt.month) + (dt.date - 1)

\* Date.prototype.getDay: 0 = Sunday; 1 January 1970 was a Thursday
getDay(dt) == (DayNumber(dt) + 4) % 7

getDate(dt) == dt.date

\* the remainder operator of JavaScript: the sign of the dividend
JSRem(a, b) == IF a >= 0 THEN a % b ELSE -((-a) % b)

MonthNames == <<"January", "February", "March", "April", "May", "June", "July",
                "August", "September", "October", "November", "December">>

\* toLocaleDateString('en-US', {month: 'long', year: 'numeric'})
toLocaleMonthYear(dt) == <<MonthNames[dt.month + 1], dt.year>>

----------------------------------------------------------------------------
(* src/script.js: data                                                     *)

D_2025_11_01 == <<"2", "0", "2", "5", "-", "1", "1", "-", "0", "1">>
D_2025_11_25 == <<"2", "0", "2", "5", "-", "1", "1", "-", "2", "5">>
D_2025_12_05 == <<"2", "0", "2", "5", "-", "1", "2", "-", "0", "5">>
D_2025_12_24 == <<"2", "0", "2", "5", "-", "1", "2", "-", "2", "4">>

\* staticEvents as loaded, lines 9-16
InitialEvents ==
    << [title |-> "Project Kickoff", date |-> D_2025_11_25, time |-> "10:00", duration |-> "1h"],
       [title |-> "Team Review", date |-> D_2025_11_25, time |-> "11:00", duration |-> "30m"],
       [title |-> "Client Presentation", date |-> D_2025_11_25, time |-> "14:00", duration |-> "2h"],
       [title |-> "Quarterly Planning", date |-> D_2025_12_05, time |-> "09:30", duration |-> "2h"],
       [title |-> "Holiday Party", date |-> D_2025_12_24, time |-> "18:00", duration |-> "4h"],
       [title |-> "Bug Bash", date |-> D_2025_11_01, time |-> "09:00", duration |-> "3h"] >>

\* what the user may have in the form's fields
Titles == {"", "Standup"}
Times == {"16:00"}
Durations == {"45m"}

\* page-load dates of Spec: new Date() at lines 31-33
InitialDates == { [year |-> SampleYear, month |-> 11, date |-> 5] }

\* day numbers of the cells the user clicks, active or not
SampleDays == {5, 25}

----------------------------------------------------------------------------
(* src/script.js: rendering                                                *)

\* hasConflict, lines 56-58
hasConflict(dayEvents) == Len(dayEvents)

\* conflictClass with a single level from two events on
conflictClass_TwoOrMore(conflictCount) ==
    IF conflictCount >= 2 THEN "conflict-level-3" ELSE ""

\* the class added to an event of a day with conflictCount events, lines 105-109
conflictClass(conflictCount) ==
    IF conflictCount = 2 THEN "conflict-level-2"
    ELSE IF conflictCount >= 3 THEN "conflict-level-3"
    ELSE ""

\* the event element of lines 101-115
eventDiv(event, conflictCount) ==
    [cls |-> conflictClass(conflictCount),
     textContent |-> <<event.time, event.title>>,
     title |-> <<event.title, event.time, event.duration>>]

\* createDateCell, lines 66-120: the cell appended to the grid. onclick says
\* whether the click listener of lines 88-92 is attached; the listener's
\* captured dateString is the cell's date.
createDateCell(year, month, day, isInactive, isPrevMonth, isToday, events) ==
    [day |-> day,
     inactive |-> isInactive,
     currentDay |-> isToday,
     onclick |-> ~isInactive,
     date |-> IF ~isInactive THEN formatDate(year, month, day) ELSE EmptyStr,
     events |-> IF Len(events) > 0 /\ ~isInactive
                THEN [k \in 1..Len(events) |-> eventDiv(events[k], hasConflict(events))]
                ELSE << >>]

\* line 164 without the remainder: always six rows
nextMonthDaysNeeded_FullGrid(totalCells) == 42 - totalCells

\* line 164
nextMonthDaysNeeded(totalCells) == JSRem(42 - totalCells, 7)

\* line 151: staticEvents.filter(e => e.date === dateString)
dayEventsOf(events, dateString) ==
    SelectSeq(events, LAMBDA e : e.date = dateString)

\* renderCalendar, lines 125-169: the children of the grid after the call
renderCalendar(year, month, events, tdy) ==
    LET firstDayOfMonth == getDay(NewDate(year, month, 1))
        daysInMonth == getDate(NewDate(year, month + 1, 0))
        daysInPrevMonth == getDate(NewDate(year, month, 0))
        leading == [k \in 1..firstDayOfMonth |->
                      createDateCell(year, month,
                                     daysInPrevMonth - firstDayOfMonth + (k - 1) + 1,
                                     TRUE, TRUE, FALSE, << >>)]
        active == [day \in 1..daysInMonth |->
                      createDateCell(year, month, day, FALSE, FALSE,
                                     day = tdy.date /\ month = tdy.month /\ year = tdy.year,
                                     dayEventsOf(events, formatDate(year, month, day)))]
        totalCells == firstDayOfMonth + daysInMonth
        trailing == [k \in 1..nextMonthDaysNeeded(totalCells) |->
                      createDateCell(year, month, k, TRUE, FALSE, FALSE, << >>)]
    IN  leading \o active \o trailing

\* what a call of renderCalendar leaves on the page
Rendered(year, month, events) ==
    /\ calendarGrid' = renderCalendar(year, month, events, today)
    /\ currentMonthYearDisplay' = toLocaleMonthYear(NewDate(year, month, 1))

----------------------------------------------------------------------------
(* src/script.js: handlers                                                 *)

MonthIndex(year, month) == year * 12 + month

\* the view stays within NavSpan months of the month of page load
InWindow(year, month) ==
    LET dist == MonthIndex(year, month) - MonthIndex(today.year, today.month)
    IN  dist \in (-NavSpan)..NavSpan

\* lines 175-179 without the wrap into December
prevView_NoWrap(year, month) == <<year, month - 1>>

\* lines 175-179
prevView(year, month) ==
    IF month - 1 < 0 THEN <<year - 1, 11>> ELSE <<year, month - 1>>

\* lines 184-188
nextView(year, month) ==
    IF month + 1 > 11 THEN <<year + 1, 0>> ELSE <<year, month + 1>>

\* prevMonthBtn click, lines 174-181
PrevMonthClick ==
    LET v == prevView(currentYear, currentMonth) IN
    /\ InWindow(v[1], v[2])
    /\ currentYear' = v[1]
    /\ currentMonth' = v[2]
    /\ Rendered(v[1], v[2], staticEvents)
    /\ UNCHANGED <<staticEvents, today, modalDisplay, eventTitle, eventDate>>
    /\ UNCHANGED serverVars

\* nextMonthBtn click, lines 183-190
NextMonthClick ==
    LET v == nextView(currentYear, currentMonth) IN
    /\ InWindow(v[1], v[2])
    /\ currentYear' = v[1]
    /\ currentMonth' = v[2]
    /\ Rendered(v[1], v[2], staticEvents)
    /\ UNCHANGED <<staticEvents, today, modalDisplay, eventTitle, eventDate>>
    /\ UNCHANGED serverVars

\* a click on the i-th cell of the grid: the listener of lines 88-92, if the
\* cell has one
CellClick(i) ==
    /\ i \in 1..Len(calendarGrid)
    /\ calendarGrid[i].day \in SampleDays
    /\ IF calendarGrid[i].onclick
       THEN /\ eventDate' = calendarGrid[i].date
            /\ modalDisplay' = "block"
       ELSE UNCHANGED <<eventDate, modalDisplay>>
    /\ UNCHANGED <<staticEvents, currentYear, currentMonth, today, calendarGrid,
                   currentMonthYearDisplay, eventTitle>>
    /\ UNCHANGED serverVars

\* closeBtn click, lines 196-198
CloseBtnClick ==
    /\ modalDisplay' = "none"
    /\ UNCHANGED <<staticEvents, currentYear, currentMonth, today, calendarGrid,
                   currentMonthYearDisplay, eventTitle, eventDate>>
    /\ UNCHANGED serverVars

ClickTargets == {"modal", "modal-content"}

\* lines 201-205 without the test of event.target
WindowClick_AnyTarget(target) ==
    /\ target \in ClickTargets
    /\ modalDisplay' = "none"
    /\ UNCHANGED <<staticEvents, currentYear, currentMonth, today, calendarGrid,
                   currentMonthYearDisplay, eventTitle, eventDate>>
    /\ UNCHANGED serverVars

\* window click with event.target = target, lines 201-205
WindowClick(target) ==
    /\ target \in ClickTargets
    /\ IF target = "modal"
       THEN modalDisplay' = "none"
       ELSE UNCHANGED modalDisplay
    /\ UNCHANGED <<staticEvents, currentYear, currentMonth, today, calendarGrid,
                   currentMonthYearDisplay, eventTitle, eventDate>>
    /\ UNCHANGED serverVars

\* the user edits the title field of the open form
TypeTitle(t) ==
    /\ modalDisplay = "block"
    /\ t \in Titles
    /\ eventTitle' = t
    /\ UNCHANGED <<staticEvents, currentYear, currentMonth, today, calendarGrid,
                   currentMonthYearDisplay, modalDisplay, eventDate>>
    /\ UNCHANGED serverVars

\* the user clears the date field of the open form
ClearDate ==
    /\ modalDisplay = "block"
    /\ eventDate' = EmptyStr
    /\ UNCHANGED <<staticEvents, currentYear, currentMonth, today, calendarGrid,
                   currentMonthYearDisplay, modalDisplay, eventTitle>>
    /\ UNCHANGED serverVars

\* lines 208-228 without the call of renderCalendar at line 227
SubmitForm_NoRender(time, duration) ==
    /\ modalDisplay = "block"
    /\ Len(staticEvents) < Len(InitialEvents) + MaxSubmits
    /\ staticEvents' = Append(staticEvents,
                              [title |-> eventTitle, date |-> eventDate,
                               time |-> time, duration |-> duration])
    /\ eventTitle' = ""
    /\ eventDate' = EmptyStr
    /\ modalDisplay' = "none"
    /\ UNCHANGED <<currentYear, currentMonth, today, calendarGrid, currentMonthYearDisplay>>
    /\ UNCHANGED serverVars

\* addEventForm submit, lines 208-228; time and duration are the values of
\* #event-time and #event-duration read at line 215-216
SubmitForm(time, duration) ==
    /\ modalDisplay = "block"
    /\ Len(staticEvents) < Len(InitialEvents) + MaxSubmits
    /\ staticEvents' = Append(staticEvents,
                              [title |-> eventTitle, date |-> eventDate,
                               time |-> time, duration |-> duration])
    /\ eventTitle' = ""
    /\ eventDate' = EmptyStr
    /\ modalDisplay' = "none"
    /\ Rendered(currentYear, currentMonth, staticEvents')
    /\ UNCHANGED <<currentYear, currentMonth, today>>
    /\ UNCHANGED serverVars

----------------------------------------------------------------------------
(* src/script.js: the page as loaded                                       *)

\* the page after script.js has run to its last line (line 234)
FrontInitAt(tdy) ==
    /\ today = tdy
    /\ staticEvents = InitialEvents
    /\ currentYear = tdy.year
    /\ currentMonth = tdy.month
    /\ calendarGrid = renderCalendar(tdy.year, tdy.month, InitialEvents, tdy)
    /\ currentMonthYearDisplay = toLocaleMonthYear(NewDate(tdy.year, tdy.month, 1))
    /\ modalDisplay = "none"
    /\ eventTitle = ""
    /\ eventDate = EmptyStr

----------------------------------------------------------------------------
(* src/unnamed/part_000: requests                                          *)

D_2025_11_26 == <<"2", "0", "2", "5", "-", "1", "1", "-", "2", "6">>
D_2025_12_01 == <<"2", "0", "2", "5", "-", "1", "2", "-", "0", "1">>

\* JSON bodies of POST /events: each field may be absent
PostBodies ==
    LET dates == { << >> } \cup { <<d>> : d \in {EmptyStr, D_2025_11_26, D_2025_12_01} }
        titles == { << >> } \cup { <<t>> : t \in {"", "Standup"} }
        descriptions == { << >> } \cup { <<x>> : x \in {"Daily sync"} }
        With(r, k, v) == IF v = << >> THEN r ELSE [f \in DOMAIN r \cup {k} |-> IF f = k THEN v[1] ELSE r[f]]
        Empty == [f \in {} |-> ""]
    IN  { With(With(With(Empty, "date", d), "title", t), "description", x) :
            d \in dates, t \in titles, x \in descriptions }

\* query strings of GET /events: ?date=... or none
GetQueries ==
    { [f \in {} |-> ""] } \cup { [date |-> d] : d \in {EmptyStr, D_2025_11_26, D_2025_12_01} }

\* :id of DELETE /events/:id. hex says whether the text is the 24 hex digits
\* new ObjectId accepts; oid is the ObjectId it then denotes.
DeleteIds ==
    { [hex |-> TRUE, oid |-> n] : n \in 1..(nextId) } \cup { [hex |-> FALSE, oid |-> 0] }

\* !obj.k for a field that is absent or a string: absent, or the empty
\* string (a date is a sequence of characters, the other fields are atoms)
Falsy(obj, k) == k \notin DOMAIN obj \/ obj[k] = (IF k = "date" THEN EmptyStr ELSE "")

----------------------------------------------------------------------------
(* src/unnamed/part_000: the collection                                    *)

\* byte order of the characters of a date string
CharCode(c) ==
    IF c = "-" THEN 45
    ELSE 48 + (CHOOSE n \in 0..9 : DigitChars[n + 1] = c)

\* string comparison of the sort: a <= b
RECURSIVE StrLeq(_, _)
StrLeq(a, b) ==
    IF a = << >> THEN TRUE
    ELSE IF b = << >> THEN FALSE
    ELSE IF CharCode(Head(a)) < CharCode(Head(b)) THEN TRUE
    ELSE IF CharCode(Head(a)) > CharCode(Head(b)) THEN FALSE
    ELSE StrLeq(Tail(a), Tail(b))

\* find(query), line 49: the documents matching { date } or {}
find(coll, query) ==
    IF "date" \in DOMAIN query
    THEN SelectSeq(coll, LAMBDA doc : doc.date = query.date)
    ELSE coll

\* sort({ date: 1 }).toArray(), line 49: every order of the documents that
\* ascends by date; the order of documents of equal date is not specified
sortByDate(docs) ==
    LET n == Len(docs)
        perms == { p \in [1..n -> 1..n] : \A i, j \in 1..n : i # j => p[i] # p[j] }
    IN  { [i \in 1..n |-> docs[p[i]]] : p \in
            { q \in perms : \A i \in 1..(n - 1) : StrLeq(docs[q[i]].date, docs[q[i + 1]].date) } }

\* insertOne, line 73
insertOne(coll, doc) == Append(coll, doc)

deletedCount(coll, oid) ==
    IF \E i \in 1..Len(coll) : coll[i]._id = oid THEN 1 ELSE 0

\* a deleteOne that removes nothing
deleteOne_None(coll, oid) == coll

\* deleteOne({ _id }), line 86: the collection without its first match
deleteOne(coll, oid) ==
    IF deletedCount(coll, oid) = 0 THEN coll
    ELSE LET i == CHOOSE k \in 1..Len(coll) :
                      coll[k]._id = oid /\ \A j \in 1..(k - 1) : coll[j]._id # oid
         IN  SubSeq(coll, 1, i - 1) \o SubSeq(coll, i + 1, Len(coll))

----------------------------------------------------------------------------
(* src/unnamed/part_000: handlers.  Each yields the response and the       *)
(* collection it leaves; thrown says whether the driver call throws.       *)

\* app.get("/events"), lines 44-55: the responses it may send
getEvents(query, thrown) ==
    IF eventsCollection = "undefined" \/ thrown
    THEN { [method |-> "GET", req |-> query, status |-> 500, body |-> [error |-> "Failed to fetch events"]] }
    ELSE LET q == IF ~Falsy(query, "date") THEN [date |-> query.date] ELSE [f \in {} |-> ""]
         IN  { [method |-> "GET", req |-> query, status |-> 200, body |-> events] :
                   events \in sortByDate(find(dbEvents, q)) }

\* lines 58-79 without the check of line 62
postEvents_NoValidation(body, thrown) ==
    IF eventsCollection = "undefined" \/ thrown
    THEN [res |-> [method |-> "POST", req |-> body, status |-> 500, body |-> [error |-> "Failed to add event"]],
          coll |-> dbEvents]
    ELSE LET doc == [_id |-> nextId,
                     date |-> IF "date" \in DOMAIN body THEN body.date ELSE EmptyStr,
                     title |-> IF "title" \in DOMAIN body THEN body.title ELSE "",
                     description |-> IF ~Falsy(body, "description") THEN body.description ELSE "",
                     createdAt |-> clock]
         IN  [res |-> [method |-> "POST", req |-> body, status |-> 201, body |-> doc],
              coll |-> insertOne(dbEvents, doc)]

\* app.post("/events"), lines 58-79
postEvents(body, thrown) ==
    IF Falsy(body, "date") \/ Falsy(body, "title")
    THEN [res |-> [method |-> "POST", req |-> body, status |-> 400,
                   body |-> [error |-> "date and title are required"]],
          coll |-> dbEvents]
    ELSE IF eventsCollection = "undefined" \/ thrown
    THEN [res |-> [method |-> "POST", req |-> body, status |-> 500, body |-> [error |-> "Failed to add event"]],
          coll |-> dbEvents]
    ELSE LET doc == [_id |-> nextId,
                     date |-> body.date,
                     title |-> body.title,
                     description |-> IF ~Falsy(body, "description") THEN body.description ELSE "",
                     createdAt |-> clock]
         IN  [res |-> [method |-> "POST", req |-> body, status |-> 201, body |-> doc],
              coll |-> insertOne(dbEvents, doc)]

\* app.delete("/events/:id"), lines 82-97; new ObjectId(id) throws on text
\* that is not an ObjectId
deleteEvent(id, thrown) ==
    IF eventsCollection = "undefined" \/ ~id.hex \/ thrown
    THEN [res |-> [method |-> "DELETE", req |-> id, status |-> 500, body |-> [error |-> "Failed to delete event"]],
          coll |-> dbEvents]
    ELSE IF deletedCount(dbEvents, id.oid) = 0
    THEN [res |-> [method |-> "DELETE", req |-> id, status |-> 404, body |-> [error |-> "Event not found"]],
          coll |-> dbEvents]
    ELSE [res |-> [method |-> "DELETE", req |-> id, status |-> 200, body |-> [message |-> "Event deleted"]],
          coll |-> deleteOne(dbEvents, id.oid)]

----------------------------------------------------------------------------
(* The client's view: trip follows create, list by date, delete by the     *)
(* returned id, list by date again, as consecutive requests.               *)

NoResponse == [method |-> "", req |-> << >>, status |-> 0, body |-> << >>]
NoTrip == [phase |-> 0]

\* the observer after a POST with body that found collection before
TripAfterPost(body, r, before) ==
    IF r.status = 201 /\ find(before, [date |-> r.body.date]) = << >>
    THEN [phase |-> 1, posted |-> body, created |-> r.body]
    ELSE NoTrip

TripAfterGet(query, r) ==
    IF trip.phase \in {1, 3} /\ r.status = 200 /\ "date" \in DOMAIN query
       /\ query.date = trip.posted.date
    THEN IF trip.phase = 1
         THEN [phase |-> 2, posted |-> trip.posted, created |-> trip.created, listed |-> r.body]
         ELSE [phase |-> 4, posted |-> trip.posted, created |-> trip.created,
               listed |-> trip.listed, deleted |-> trip.deleted, relisted |-> r.body]
    ELSE NoTrip

TripAfterDelete(id, r) ==
    IF trip.phase = 2 /\ id.hex /\ id.oid = trip.created._id /\ r.status # 500
    THEN [phase |-> 3, posted |-> trip.posted, created |-> trip.created,
          listed |-> trip.listed, deleted |-> r.status]
    ELSE NoTrip

----------------------------------------------------------------------------
(* src/unnamed/part_000: actions                                           *)

ServerInit ==
    /\ eventsCollection = "undefined"
    /\ running = TRUE
    /\ dbEvents = << >>
    /\ nextId = 1
    /\ clock = 0
    /\ res = NoResponse
    /\ trip = NoTrip

\* the page as loaded and the server as started
Init ==
    /\ \E tdy \in InitialDates : FrontInitAt(tdy)
    /\ ServerInit

\* connectDB succeeds, lines 20-23
ConnectDB ==
    /\ running /\ eventsCollection = "undefined"
    /\ eventsCollection' = "events"
    /\ UNCHANGED <<running, dbEvents, nextId, clock, res, trip>>
    /\ UNCHANGED frontVars

\* connectDB fails, lines 24-27: process.exit(1)
ConnectDBFails ==
    /\ running /\ eventsCollection = "undefined"
    /\ running' = FALSE
    /\ UNCHANGED <<eventsCollection, dbEvents, nextId, clock, res, trip>>
    /\ UNCHANGED frontVars

Get(query, thrown) ==
    /\ running
    /\ \E r \in getEvents(query, thrown) :
          /\ res' = r
          /\ trip' = TripAfterGet(query, r)
    /\ UNCHANGED <<eventsCollection, running, dbEvents, nextId, clock>>
    /\ UNCHANGED frontVars

Post(body, thrown) ==
    LET out == postEvents(body, thrown) IN
    /\ running
    /\ out.res.status = 201 => nextId <= MaxInserts
    /\ res' = out.res
    /\ dbEvents' = out.coll
    /\ nextId' = IF out.res.status = 201 THEN nextId + 1 ELSE nextId
    /\ clock' = IF out.res.status = 201 THEN clock + 1 ELSE clock
    /\ trip' = TripAfterPost(body, out.res, dbEvents)
    /\ UNCHANGED <<eventsCollection, running>>
    /\ UNCHANGED frontVars

Delete(id, thrown) ==
    LET out == deleteEvent(id, thrown) IN
    /\ running
    /\ res' = out.res
    /\ dbEvents' = out.coll
    /\ trip' = TripAfterDelete(id, out.res)
    /\ UNCHANGED <<eventsCollection, running, nextId, clock>>
    /\ UNCHANGED frontVars

ServerNext ==
    \/ ConnectDB
    \/ ConnectDBFails
    \/ \E query \in GetQueries, thrown \in BOOLEAN : Get(query, thrown)
    \/ \E body \in PostBodies, thrown \in BOOLEAN : Post(body, thrown)
    \/ \E id \in DeleteIds, thrown \in BOOLEAN : Delete(id, thrown)

\* the server from its start: the page takes no step
SpecServer == Init /\ [][ServerNext]_vars

----------------------------------------------------------------------------
(* Specifications of the page: the server takes no step                   *)

Next ==
    \/ PrevMonthClick
    \/ NextMonthClick
    \/ \E i \in 1..42 : CellClick(i)
    \/ CloseBtnClick
    \/ \E target \in ClickTargets : WindowClick(target)
    \/ \E t \in Titles : TypeTitle(t)
    \/ ClearDate
    \/ \E time \in Times, duration \in Durations : SubmitForm(time, duration)

Spec == Init /\ [][Next]_vars

\* page loads on the first of any month of GridFirstYear .. GridFirstYear + GridYearSpan
GridInit ==
    /\ \E y \in GridFirstYear..(GridFirstYear + GridYearSpan), m \in 0..11 :
          FrontInitAt([year |-> y, month |-> m, date |-> 1])
    /\ ServerInit

GridNext ==
    \/ PrevMonthClick
    \/ NextMonthClick

SpecGrid == GridInit /\ [][GridNext]_vars

----------------------------------------------------------------------------
(* The calendar, stated apart from the code                                *)

MonthLengths == <<31, 28, 31, 30, 31, 30, 31, 31, 30, 31, 30, 31>>

\* days of month (0..11) of year, by table
CalendarMonthLength(year, month) ==
    IF month = 1 /\ ((year % 4 = 0 /\ year % 100 # 0) \/ year % 400 = 0)
    THEN 29
    ELSE MonthLengths[month + 1]

MonthKeys == <<0, 3, 2, 5, 0, 3, 5, 1, 4, 6, 2, 4>>

\* weekday (0 = Sunday) of the first day of month (0..11) of year, by the
\* month-key congruence
WeekdayOfFirst(year, month) ==
    LET y == IF month < 2 THEN year - 1 ELSE year
    IN  (y + (y \div 4) - (y \div 100) + (y \div 400) + MonthKeys[month + 1] + 1) % 7

\* the digits of YYYY-MM-DD, for a year of four digits
IsoDate(year, month, day) ==
    <<DigitChars[(year \div 1000) + 1], DigitChars[((year \div 100) % 10) + 1],
      DigitChars[((year \div 10) % 10) + 1], DigitChars[(year % 10) + 1], "-",
      DigitChars[((month + 1) \div 10) + 1], DigitChars[((month + 1) % 10) + 1], "-",
      DigitChars[(day \div 10) + 1], DigitChars[(day % 10) + 1]>>

\* the rendered grid, read back
ActiveCells == { i \in 1..Len(calendarGrid) : ~calendarGrid[i].inactive }
LeadingCount ==
    Cardinality({ i \in 1..Len(calendarGrid) : \A j \in 1..i : calendarGrid[j].inactive })
ActiveCount == Cardinality(ActiveCells)
TrailingCount == Len(calendarGrid) - LeadingCount - ActiveCount

----------------------------------------------------------------------------
(* Claims about the page                                                   *)

\* C1: for a month in 0..11 the grid is leadingCount inactive cells, with
\* leadingCount the weekday (0 = Sunday) of the first of the month, then one
\* active cell per day of the month, then trailingCount =
\* (42 - (leadingCount + daysInMonth)) mod 7 inactive cells: the total is a
\* multiple of 7, trailingCount is in 0..6 and is 0 when leading + days is
\* already a multiple of 7; November 2025 is 6 + 30 + 6.
C1_GridLayout ==
    currentMonth \in 0..11 =>
        /\ LeadingCount = WeekdayOfFirst(currentYear, currentMonth)
        /\ ActiveCount = CalendarMonthLength(currentYear, currentMonth)
        /\ ActiveCells = (LeadingCount + 1)..(LeadingCount + ActiveCount)
        /\ TrailingCount = (42 - (LeadingCount + ActiveCount)) % 7
        /\ (LeadingCount + ActiveCount + TrailingCount) % 7 = 0
        /\ TrailingCount \in 0..6
        /\ (LeadingCount + ActiveCount) % 7 = 0 => TrailingCount = 0
        /\ (currentYear = 2025 /\ currentMonth = 10) =>
               <<LeadingCount, ActiveCount, TrailingCount>> = <<6, 30, 6>>

\* a month reached by navigation that needs no trailing cell
C1_Witness ==
    /\ <<currentYear, currentMonth>> # <<today.year, today.month>>
    /\ (LeadingCount + ActiveCount) % 7 = 0
    /\ Len(calendarGrid) = LeadingCount + ActiveCount

PrevShape ==
    IF currentMonth = 0
    THEN currentMonth' = 11 /\ currentYear' = currentYear - 1
    ELSE currentMonth' = currentMonth - 1 /\ currentYear' = currentYear

NextShape ==
    IF currentMonth = 11
    THEN currentMonth' = 0 /\ currentYear' = currentYear + 1
    ELSE currentMonth' = currentMonth + 1 /\ currentYear' = currentYear

\* C2: PREV is month - 1 with 0 wrapping to 11 of the year before, NEXT is
\* month + 1 with 11 wrapping to 0 of the year after; the month stays in 0..11;
\* every change of (year, month) is a PREV or a NEXT, and cell clicks, the
\* dismissals, edits of the form and submit leave (year, month) alone.
C2_ViewChangedOnlyByNavigation ==
    /\ [](currentMonth \in 0..11)
    /\ [][PrevMonthClick => PrevShape]_vars
    /\ [][NextMonthClick => NextShape]_vars
    /\ [][<<currentYear, currentMonth>>' # <<currentYear, currentMonth>>
            => (PrevMonthClick \/ NextMonthClick) /\ (PrevShape \/ NextShape)]_vars
    /\ [][((\E i \in 1..42 : CellClick(i)) \/ CloseBtnClick
            \/ (\E target \in ClickTargets : WindowClick(target))
            \/ (\E t \in Titles : TypeTitle(t)) \/ ClearDate
            \/ (\E time \in Times, duration \in Durations : SubmitForm(time, duration)))
            => <<currentYear, currentMonth>>' = <<currentYear, currentMonth>>]_vars

\* NEXT has wrapped December into January of the next year
C2_Witness ==
    /\ today.month = 11
    /\ currentMonth = 0
    /\ currentYear = today.year + 1

\* number of events of the list on a date
CountOn(dateString) ==
    Cardinality({ i \in 1..Len(staticEvents) : staticEvents[i].date = dateString })

FlagOfCount(n) ==
    IF n = 2 THEN "conflict-level-2" ELSE IF n >= 3 THEN "conflict-level-3" ELSE ""

\* C3: every event shown in an active day's cell carries the flag of the
\* number of events of that day: none for 0 or 1, level 2 for exactly 2,
\* level 3 for 3 or more, the same on every event of the day, whatever the
\* events' times.
C3_FlagByCount ==
    \A i \in ActiveCells :
        /\ Len(calendarGrid[i].events) = CountOn(calendarGrid[i].date)
        /\ \A k \in 1..Len(calendarGrid[i].events) :
              calendarGrid[i].events[k].cls = FlagOfCount(CountOn(calendarGrid[i].date))

\* a day that a submission took from one event to two, both flagged level 2
C3_Witness ==
    \E i \in ActiveCells :
        /\ Len(calendarGrid[i].events) = 2
        /\ calendarGrid[i].events[1].textContent[1] # calendarGrid[i].events[2].textContent[1]
        /\ calendarGrid[i].events[2].textContent[2] = "Standup"
        /\ \A k \in 1..2 : calendarGrid[i].events[k].cls = "conflict-level-2"

\* C4: a submit while the title or the date is empty adds no event, does
\* not reset the form and does not hide the prompt; every event of the list
\* has a non-empty date and title.
C4_EmptySubmitRejected ==
    /\ [](\A i \in 1..Len(staticEvents) :
              staticEvents[i].title # "" /\ staticEvents[i].date # EmptyStr)
    /\ [][((\E time \in Times, duration \in Durations : SubmitForm(time, duration))
            /\ (eventTitle = "" \/ eventDate = EmptyStr))
            => <<staticEvents, eventTitle, eventDate, modalDisplay>>'
                 = <<staticEvents, eventTitle, eventDate, modalDisplay>>]_vars

\* C8: the close button and a click on the backdrop hide the prompt and
\* change nothing else (event list, year, month, form fields, grid); a window
\* click on any other target leaves the prompt as it is.
C8_DismissOnlyHides ==
    /\ [][(CloseBtnClick \/ WindowClick("modal"))
            => /\ modalDisplay' = "none"
               /\ <<staticEvents, currentYear, currentMonth, eventTitle, eventDate,
                    calendarGrid, currentMonthYearDisplay>>'
                    = <<staticEvents, currentYear, currentMonth, eventTitle, eventDate,
                        calendarGrid, currentMonthYearDisplay>>]_vars
    /\ [][(\E target \in ClickTargets \ {"modal"} : WindowClick(target))
            => modalDisplay' = modalDisplay]_vars

\* the prompt was opened on a date and dismissed: hidden, date still filled
\* in, nothing added
C8_Witness ==
    /\ modalDisplay = "none"
    /\ eventDate # EmptyStr
    /\ staticEvents = InitialEvents

\* C9: a click on an active cell shows the prompt and sets the date field to
\* YYYY-MM-DD, month and day zero-padded, of the cell's day in the displayed
\* year and month; a click on an inactive cell changes neither.
C9_CellClickPrefillsDate ==
    [][\A i \in 1..Len(calendarGrid) :
          CellClick(i) =>
              IF i \in ActiveCells
              THEN /\ modalDisplay' = "block"
                   /\ calendarGrid[i].day = i - LeadingCount
                   /\ eventDate' = IsoDate(currentYear, currentMonth, i - LeadingCount)
              ELSE <<modalDisplay, eventDate>>' = <<modalDisplay, eventDate>>]_vars

\* after NEXT into January 2026, the cell of the 5th was clicked
C9_Witness ==
    /\ modalDisplay = "block"
    /\ currentYear = 2026 /\ currentMonth = 0
    /\ eventDate = <<"2", "0", "2", "6", "-", "0", "1", "-", "0", "5">>

\* what an event element shows of its event
Shown(div) == <<div.textContent[2], div.textContent[1], div.title[3]>>
ShownOf(event) == <<event.title, event.time, event.duration>>

\* the events of the list on a date, in the list's order
RECURSIVE EventsOn(_, _)
EventsOn(events, dateString) ==
    IF events = << >> THEN << >>
    ELSE IF Head(events).date = dateString
         THEN <<ShownOf(Head(events))>> \o EventsOn(Tail(events), dateString)
         ELSE EventsOn(Tail(events), dateString)

\* C10: after every handler the grid shows the current state: the active
\* cells are the days 1..daysInMonth of the displayed month in order, each
\* showing exactly the events of the list dated that day, in the list's order
\* and flagged by their number; inactive cells show no event.
C10_GridIsProjection ==
    /\ ActiveCells = (LeadingCount + 1)..(LeadingCount + CalendarMonthLength(currentYear, currentMonth))
    /\ \A i \in 1..Len(calendarGrid) :
          IF i \in ActiveCells
          THEN LET cell == calendarGrid[i]
                   shown == [k \in 1..Len(cell.events) |-> Shown(cell.events[k])]
               IN  /\ cell.day = i - LeadingCount
                   /\ shown = EventsOn(staticEvents, IsoDate(currentYear, currentMonth, cell.day))
                   /\ \A k \in 1..Len(cell.events) :
                         cell.events[k].cls = FlagOfCount(Len(shown))
          ELSE calendarGrid[i].events = << >>

\* an event just submitted is shown last in a day that already had events
C10_Witness ==
    /\ Len(staticEvents) > Len(InitialEvents)
    /\ \E i \in ActiveCells :
          LET n == Len(calendarGrid[i].events)
          IN  /\ n >= 2
              /\ Shown(calendarGrid[i].events[n]) = ShownOf(staticEvents[Len(staticEvents)])
              /\ calendarGrid[i].date = staticEvents[Len(staticEvents)].date

----------------------------------------------------------------------------
(* Claims about the server                                                 *)

\* a field of a request body that is absent or the empty string
MissingOrEmpty(body, k) ==
    \/ k \notin DOMAIN body
    \/ (k = "date" /\ Len(body[k]) = 0)
    \/ (k # "date" /\ body[k] = "")

Ids(coll) == { coll[i]._id : i \in 1..Len(coll) }

\* the response and the collection of a POST that created an event from body
Created(body) ==
    /\ res'.status = 201
    /\ Len(dbEvents') = Len(dbEvents) + 1
    /\ SubSeq(dbEvents', 1, Len(dbEvents)) = dbEvents
    /\ dbEvents'[Len(dbEvents')] = res'.body
    /\ res'.body.date = body.date
    /\ res'.body.title = body.title
    /\ res'.body._id \notin Ids(dbEvents)
    /\ res'.body.createdAt = clock

Rejected ==
    /\ res'.status = 400
    /\ res'.body = [error |-> "date and title are required"]
    /\ dbEvents' = dbEvents

\* C5, as claimed: POST with date or title absent or empty is answered 400
\* and leaves the stored events unchanged; with both present it inserts
\* exactly one event and answers 201 with that event, its identifier and its
\* creation timestamp.
C5_PostValidatesThenCreates ==
    [][\A body \in PostBodies, thrown \in BOOLEAN :
          (res'.method = "POST" /\ res'.req = body /\ Post(body, thrown)) =>
              IF MissingOrEmpty(body, "date") \/ MissingOrEmpty(body, "title")
              THEN Rejected
              ELSE Created(body)]_vars

\* C5, amended: as claimed when the collection is connected and insertOne
\* does not throw; with both fields present and the collection not yet
\* connected, or insertOne throwing, the answer is 500 and the stored events
\* are unchanged.
C5_PostValidatesThenCreatesOrFails ==
    [][\A body \in PostBodies, thrown \in BOOLEAN :
          (res'.method = "POST" /\ res'.req = body /\ Post(body, thrown)) =>
              IF MissingOrEmpty(body, "date") \/ MissingOrEmpty(body, "title")
              THEN Rejected
              ELSE IF eventsCollection # "undefined" /\ ~thrown
              THEN Created(body)
              ELSE /\ res'.status = 500
                   /\ dbEvents' = dbEvents]_vars

\* a POST was rejected while the collection, connected, holds an event that
\* an earlier POST created
C5_Witness ==
    /\ res.method = "POST" /\ res.status = 400
    /\ eventsCollection # "undefined"
    /\ Len(dbEvents) = 1 /\ nextId = 2

\* C6: with the collection connected and the driver not failing, DELETE of
\* an identifier that is the id of no stored event is answered 404 "Event
\* not found" and leaves the number of stored events unchanged; DELETE of a
\* stored event's id removes exactly that event and is answered 200.
C6_DeleteNotFoundOrRemoves ==
    [][\A id \in DeleteIds :
          (res'.method = "DELETE" /\ res'.req = id /\ Delete(id, FALSE)
              /\ eventsCollection # "undefined") =>
              IF ~(id.hex /\ id.oid \in Ids(dbEvents))
              THEN /\ res'.status = 404
                   /\ res'.body = [error |-> "Event not found"]
                   /\ Len(dbEvents') = Len(dbEvents)
              ELSE /\ res'.status = 200
                   /\ Len(dbEvents') = Len(dbEvents) - 1
                   /\ Ids(dbEvents') = Ids(dbEvents) \ {id.oid}]_vars

\* C7: with no event on date d, a client that creates an event (d, title),
\* lists date d, deletes the returned id and lists date d again sees: the
\* first list is exactly the created event, with the date and title sent and
\* an id and a timestamp; the delete succeeds; the second list is empty.
C7_RoundTrip ==
    /\ trip.phase >= 2 =>
          /\ trip.listed = <<trip.created>>
          /\ trip.listed[1].date = trip.posted.date
          /\ trip.listed[1].title = trip.posted.title
          /\ {"_id", "createdAt"} \subseteq DOMAIN trip.listed[1]
    /\ trip.phase >= 3 => trip.deleted = 200
    /\ trip.phase = 4 => trip.relisted = << >>

\* a whole round trip was made while another date has a stored event
C7_Witness ==
    /\ trip.phase = 4
    /\ Len(dbEvents) >= 1

====
